---- MODULE Spec2Model ----
(***************************************************************************)
(* Model of the time-stepping engines of src/numeric: the ODE solvers of   *)
(* ode.py (EulerSolver, SimpsonSolver, RK4Solver over _BasedODE) and the   *)
(* PDE solvers of sde.py (WaveEquationSolver1d, DiffusionEquationSolver1d).*)
(*                                                                         *)
(* Numbers are exact rationals <<n, d>> with d >= 0; d = 0 encodes the     *)
(* IEEE specials the numpy code can produce (<<0,0>> = NaN, <<1,0>> = +inf,*)
(* <<-1,0>> = -inf).  Rounding error of binary floating point is not       *)
(* modelled.  Arrays are functions over 0..n-1, as in the source.          *)
(***************************************************************************)
EXTENDS Integers, Sequences, FiniteSets, TLC

VARIABLES
    cls,        \* the solver class being constructed and called
    args,       \* the caller's constructor and call arguments
    pc,         \* position of the program
    err,        \* the exception that ended the program ("" while none)
    self,       \* the constructed object's fields
    time_grid,  \* __call__: time_grid
    space_grid, \* __call__: space_grid (PDE)
    scheme,     \* __call__: tau, h, lam (PDE)
    solution,   \* __call__: the solution buffer
    loop,       \* __call__: loop locals (ODE: k, t0, t1, y0, y1, i; PDE: i)
    hist        \* history: what the call has done so far

vars == <<cls, args, pc, err, self, time_grid, space_grid, scheme, solution, loop, hist>>

-----------------------------------------------------------------------------
(* Bounds of the explored inputs *)

MaxLen == 3
MaxT == 2
MaxRows == 3
MaxCols == 4

-----------------------------------------------------------------------------
(* Arithmetic of numpy float64 values, exact *)

\* Python None; numbers are pairs and callables are one-element tuples, so
\* that "is None" can be asked of either
None == <<>>
\* a cell of np.empty memory that no statement has written yet
Uninit == <<0, -1>>

Abs(n) == IF n < 0 THEN -n ELSE n
Sgn(n) == IF n > 0 THEN 1 ELSE IF n < 0 THEN -1 ELSE 0

RECURSIVE GCD(_, _)
GCD(a, b) == IF b = 0 THEN a ELSE GCD(b, a % b)

Norm(n, d) ==
    IF d = 0 THEN <<Sgn(n), 0>>
    ELSE LET g == GCD(Abs(n), Abs(d))
         IN  <<(Sgn(d) * n) \div g, Abs(d) \div g>>

R(n) == <<n, 1>>
Q(n, d) == Norm(n, d)
NaN == <<0, 0>>
IsNaN(a) == a = NaN
IsFinite(a) == a[2] # 0

Neg(a) == <<-a[1], a[2]>>
Add(a, b) ==
    IF a[2] = 0 /\ b[2] = 0 THEN (IF a = b THEN a ELSE NaN)
    ELSE IF a[2] = 0 THEN a
    ELSE IF b[2] = 0 THEN b
    ELSE LET g == GCD(a[2], b[2])
         IN  Norm(a[1] * (b[2] \div g) + b[1] * (a[2] \div g), (a[2] \div g) * b[2])
Sub(a, b) == Add(a, Neg(b))
Mul(a, b) ==
    IF a[2] = 0 \/ b[2] = 0 THEN <<Sgn(a[1]) * Sgn(b[1]), 0>>
    ELSE LET g1 == GCD(Abs(a[1]), b[2])
             g2 == GCD(Abs(b[1]), a[2])
         IN  Norm((a[1] \div g1) * (b[1] \div g2), (a[2] \div g2) * (b[2] \div g1))
Recip(b) == IF b[1] < 0 THEN <<-b[2], -b[1]>> ELSE <<b[2], b[1]>>
Div(a, b) == Mul(a, Recip(b))
AbsR(a) == <<Abs(a[1]), a[2]>>

Leq(a, b) ==
    /\ ~IsNaN(a)
    /\ ~IsNaN(b)
    /\ IF a[2] = 0 /\ b[2] = 0 THEN a[1] <= b[1]
       ELSE a[1] * b[2] <= b[1] * a[2]
Geq(a, b) == Leq(b, a)
Lt(a, b) == Leq(a, b) /\ a # b

\* int(np.ceil(a)) of a finite value
Ceil(a) == -((-a[1]) \div a[2])

Len0(arr) == Cardinality(DOMAIN arr)
Last(arr) == arr[Len0(arr) - 1]

-----------------------------------------------------------------------------
(* GridBuilder *)

\* np.linspace(start, stop, num), endpoint=True
Linspace(start, stop, num) ==
    LET div == num - 1
        delta == Sub(stop, start)
        step == IF div > 0 THEN Div(delta, R(div)) ELSE NaN
    IN  [k \in 0..(num - 1) |->
            IF div > 0
            THEN (IF k = num - 1 THEN stop ELSE Add(Mul(R(k), step), start))
            ELSE Add(Mul(R(k), delta), start)]

\* niters of _grid_constr
NitersFloor(start_time, end_time, step_size) ==
    (Add(Div(AbsR(Sub(end_time, start_time)), step_size), R(1)))[1]
        \div (Add(Div(AbsR(Sub(end_time, start_time)), step_size), R(1)))[2]

Niters(start_time, end_time, step_size) ==
    Ceil(Add(Div(AbsR(Sub(end_time, start_time)), step_size), R(1)))

\* the closure _grid_constr returned by _grid_step_size(step_size)
GridStepSize(step_size, t) ==
    LET start_time == t[0]
        end_time == Last(t)
        niters == Niters(start_time, end_time, step_size)
    IN  Linspace(start_time, end_time, niters)

\* the default rule: lambda f, y0, t: t  /  lambda val: val
GridIdentity(t) == t

\* caller-supplied grid rules: "halves" re-samples the span on three points,
\* "shifted" returns a grid whose last point is not the requested one
CustomRules == {<<"halves">>, <<"shifted">>}
GridCustom(rule, t) ==
    IF rule = <<"halves">> THEN Linspace(t[0], Last(t), 3)
    ELSE [k \in 0..1 |-> IF k = 0 THEN t[0] ELSE Add(Last(t), R(1))]

BuildGrid(constr, t) ==
    IF constr.kind = "custom" THEN GridCustom(constr.rule, t)
    ELSE IF constr.kind = "step" THEN GridStepSize(constr.step, t)
    ELSE GridIdentity(t)

\* assert grid[0] == t[0] and grid[-1] == t[-1]
EdgeFirstOnly(grid, t) == grid[0] = t[0]

EdgesEqual(grid, t) == grid[0] = t[0] /\ Last(grid) = Last(t)

-----------------------------------------------------------------------------
(* Caller inputs of the ODE engine *)

OdeClasses == {"EulerSolver", "SimpsonSolver", "RK4Solver"}
PdeClasses == {"WaveEquationSolver1d", "DiffusionEquationSolver1d"}

\* derivative functions func(t, y) the caller may pass
Funcs == {"const", "y"}
Func(name, t, y) == IF name = "const" THEN R(2) ELSE y

\* interp argument: the two tags, a callable taking (t0,y0,f0,t1,y1,f1,t),
\* and a string that is neither a tag nor callable
Interps == {"linear", "cubic", "rule7", "nearest"}
IsCallable(interp) == interp = "rule7"

StepSizes == {R(1), R(2)}
TimeArrays == UNION {[0..(n - 1) -> {R(v) : v \in 0..MaxT}] : n \in 1..MaxLen}

NoArgs ==
    [func |-> "", y0 |-> R(0), step_size |-> None, time_step |-> None,
     space_step |-> None, grid_constr |-> None, interp |-> "",
     t |-> <<>>, x |-> <<>>, sigma |-> R(1),
     u0 |-> "", ut0 |-> "", ua |-> "", ub |-> ""]

OdeArgs ==
    {[NoArgs EXCEPT !.func = f, !.y0 = R(1), !.step_size = s, !.grid_constr = g,
                    !.interp = ip, !.t = t] :
        f \in Funcs, s \in {None} \cup StepSizes, g \in {None} \cup CustomRules,
        ip \in Interps, t \in TimeArrays}

NoSelf == [grid_constr |-> None, time_grid_constr |-> None,
           space_grid_constr |-> None, tau |-> None, h |-> None]
NoLoop == [k |-> 0, i |-> 0, t0 |-> NaN, t1 |-> NaN, y0 |-> NaN, y1 |-> NaN]
NoScheme == [tau |-> None, h |-> None, lam |-> None]
NoHist == [allocated |-> FALSE, built |-> FALSE, handled |-> <<>>, writes |-> <<>>,
           solves |-> 0, marched |-> 0, result |-> <<>>]

Custom(rule) == [kind |-> "custom", rule |-> rule, step |-> None]
FixedStep(step) == [kind |-> "step", rule |-> None, step |-> step]
Identity == [kind |-> "identity", rule |-> None, step |-> None]

Raise(e) ==
    /\ pc' = "error"
    /\ err' = e

-----------------------------------------------------------------------------
(* ODEStepper *)

Half == Q(1, 2)

EulerStep(f, t0, dt, t1, y) == Mul(dt, Func(f, t0, y))

SimpsonStepEqualWeights(f, t0, dt, t1, y) ==
    LET q1 == Func(f, t0, y)
        q2 == Func(f, Add(t0, Mul(Half, dt)), Add(y, Mul(Mul(Half, q1), dt)))
        q3 == Func(f, Add(t0, dt),
                   Add(Add(y, Mul(Mul(Half, q1), dt)), Mul(Mul(Half, q2), dt)))
    IN  Div(Mul(dt, Add(Add(q1, q2), q3)), R(6))

SimpsonStep(f, t0, dt, t1, y) ==
    LET q1 == Func(f, t0, y)
        q2 == Func(f, Add(t0, Mul(Half, dt)), Add(y, Mul(Mul(Half, q1), dt)))
        q3 == Func(f, Add(t0, dt),
                   Add(Add(y, Mul(Mul(Half, q1), dt)), Mul(Mul(Half, q2), dt)))
    IN  Div(Mul(dt, Add(Add(q1, Mul(R(4), q2)), q3)), R(6))

RK4Step(f, t0, dt, t1, y) ==
    LET q1 == Func(f, t0, y)
        q2 == Func(f, Add(t0, Mul(Half, dt)), Add(y, Mul(Mul(Half, q1), dt)))
        q3 == Func(f, Add(t0, Mul(Half, dt)), Add(y, Mul(Mul(Half, q2), dt)))
        q4 == Func(f, Add(t0, dt), Add(y, Mul(q3, dt)))
    IN  Div(Mul(dt, Add(Add(Add(q1, Mul(R(2), q2)), Mul(R(2), q3)), q4)), R(6))

Step(c, f, t0, dt, t1, y) ==
    IF c = "EulerSolver" THEN EulerStep(f, t0, dt, t1, y)
    ELSE IF c = "SimpsonSolver" THEN SimpsonStep(f, t0, dt, t1, y)
    ELSE RK4Step(f, t0, dt, t1, y)

-----------------------------------------------------------------------------
(* OutputProjector *)

LinearInterpLeft(t0, t1, y0, y1, t) == y0

LinearInterp(t0, t1, y0, y1, t) ==
    LET slope == Div(Sub(t, t0), Sub(t1, t0))
    IN  Add(y0, Mul(slope, Sub(y1, y0)))

-----------------------------------------------------------------------------
(* ODEEngine: _BasedODE.__init__ and _BasedODE.__call__ *)

OdeInit ==
    /\ pc = "new"
    /\ cls \in OdeClasses
    /\ IF args.grid_constr # None
       THEN /\ self' = [NoSelf EXCEPT !.grid_constr = Custom(args.grid_constr)]
            /\ pc' = "ready"
            /\ err' = err
       ELSE IF args.grid_constr = None /\ args.step_size # None
       THEN /\ self' = [NoSelf EXCEPT !.grid_constr = FixedStep(args.step_size)]
            /\ pc' = "ready"
            /\ err' = err
       ELSE IF args.grid_constr = None /\ args.step_size = None
       THEN /\ self' = [NoSelf EXCEPT !.grid_constr = Identity]
            /\ pc' = "ready"
            /\ err' = err
       ELSE /\ Raise("ValueError")
            /\ self' = self
    /\ UNCHANGED <<cls, args, time_grid, space_grid, scheme, solution, loop, hist>>

\* lines 82-90: build the grid, check its edges, allocate, seed index 0
OdeCall ==
    /\ pc = "ready"
    /\ cls \in OdeClasses
    /\ LET t == args.t
           grid == BuildGrid(self.grid_constr, t)
           n == Len0(t)
       IN  /\ time_grid' = grid
           /\ IF ~EdgesEqual(grid, t)
              THEN /\ Raise("AssertionError")
                   /\ hist' = [hist EXCEPT !.built = TRUE]
                   /\ UNCHANGED <<solution, loop>>
              ELSE /\ solution' = [j \in 0..(n - 1) |-> IF j = 0 THEN args.y0 ELSE Uninit]
                   /\ hist' = [hist EXCEPT !.built = TRUE, !.allocated = TRUE,
                                  !.writes = [j \in 0..(n - 1) |-> IF j = 0 THEN 1 ELSE 0]]
                   /\ loop' = [NoLoop EXCEPT !.y0 = args.y0, !.i = 1, !.k = 0]
                   /\ pc' = "for"
                   /\ err' = err
    /\ UNCHANGED <<cls, args, self, space_grid, scheme>>

\* lines 91-95: the next pair (t0, t1) of the grid, one step of the stepper
OdeStep ==
    /\ pc = "for"
    /\ cls \in OdeClasses
    /\ loop.k < Len0(time_grid) - 1
    /\ LET t0 == time_grid[loop.k]
           t1 == time_grid[loop.k + 1]
           dt == Sub(t1, t0)
           dy == Step(cls, args.func, t0, dt, t1, loop.y0)
       IN  loop' = [loop EXCEPT !.t0 = t0, !.t1 = t1, !.y1 = Add(loop.y0, dy)]
    /\ hist' = [hist EXCEPT !.marched = @ + 1]
    /\ pc' = "while"
    /\ UNCHANGED <<cls, args, err, self, time_grid, space_grid, scheme, solution>>

WhileCondStrict == loop.i < Len0(args.t) /\ Lt(args.t[loop.i], loop.t1)

\* line 97: while i < t.shape[0] and t1 >= t[i]
WhileCond == loop.i < Len0(args.t) /\ Geq(loop.t1, args.t[loop.i])

\* history entry of one while iteration: index i is handled in step k,
\* which goes from state y0 to state y1
Crossing == [i |-> loop.i, k |-> loop.k, y0 |-> loop.y0, y1 |-> loop.y1]

\* lines 97-113: one iteration of the while loop
OdeProject ==
    /\ pc = "while"
    /\ cls \in OdeClasses
    /\ WhileCond
    /\ IF args.interp = "linear"
       THEN /\ solution' = [solution EXCEPT ![loop.i] =
                               LinearInterp(loop.t0, loop.t1, loop.y0, loop.y1, args.t[loop.i])]
            /\ hist' = [hist EXCEPT !.writes[loop.i] = @ + 1,
                           !.handled = Append(@, Crossing)]
            /\ loop' = [loop EXCEPT !.i = @ + 1]
            /\ UNCHANGED <<pc, err>>
       ELSE IF args.interp = "cubic"
       THEN /\ hist' = [hist EXCEPT !.handled = Append(@, Crossing)]
            /\ loop' = [loop EXCEPT !.i = @ + 1]
            /\ UNCHANGED <<pc, err, solution>>
       ELSE IF IsCallable(args.interp)
       THEN \* the rule is called and its value dropped
            /\ hist' = [hist EXCEPT !.handled = Append(@, Crossing)]
            /\ loop' = [loop EXCEPT !.i = @ + 1]
            /\ UNCHANGED <<pc, err, solution>>
       ELSE /\ Raise("TypeError")
            /\ UNCHANGED <<solution, hist, loop>>
    /\ UNCHANGED <<cls, args, self, time_grid, space_grid, scheme>>

\* line 115: the while loop is left, y0 = y1
OdeNext ==
    /\ pc = "while"
    /\ cls \in OdeClasses
    /\ ~WhileCond
    /\ loop' = [loop EXCEPT !.y0 = loop.y1, !.k = @ + 1]
    /\ pc' = "for"
    /\ UNCHANGED <<cls, args, err, self, time_grid, space_grid, scheme, solution, hist>>

\* values a never-written cell of np.empty memory may hold
Garbage == {R(0), R(7)}

Returned(buf, writes) ==
    {b \in [DOMAIN buf -> Garbage \cup {buf[c] : c \in DOMAIN buf}] :
        \A c \in DOMAIN buf :
            IF writes[c] = 0 THEN b[c] \in Garbage ELSE b[c] = buf[c]}

\* line 117: return solution
OdeReturn ==
    /\ pc = "for"
    /\ cls \in OdeClasses
    /\ loop.k >= Len0(time_grid) - 1
    /\ \E b \in Returned(solution, hist.writes) :
          hist' = [hist EXCEPT !.result = b]
    /\ pc' = "done"
    /\ UNCHANGED <<cls, args, err, self, time_grid, space_grid, scheme, solution, loop>>

-----------------------------------------------------------------------------
(* Caller inputs of the PDE engines *)

Sigmas == {R(0), Q(1, 2), R(1)}

\* caller arrays 0, 1, ..., n-1 of n points
Ramp(n) == [k \in 0..(n - 1) |-> R(k)]
PdeTimes == {Ramp(n) : n \in 2..MaxRows}
PdeSpaces == {Ramp(n) : n \in 2..MaxCols}

\* u0(x), ut0(x), ua(t), ub(t) the caller may pass
U0(name, x) == IF name = "x" THEN x ELSE R(1)
Ut0(name, x) == R(1)
Ua(name, t) == Add(R(1), t)
Ub(name, t) == R(0)

PdeArgs ==
    {[NoArgs EXCEPT !.time_step = ts, !.space_step = ss, !.grid_constr = g,
                    !.t = t, !.x = x, !.sigma = sg,
                    !.u0 = u, !.ut0 = "one", !.ua = "one_plus_t", !.ub = "zero"] :
        ts \in {None} \cup StepSizes, ss \in {None} \cup StepSizes,
        g \in {None} \cup CustomRules, t \in PdeTimes, x \in PdeSpaces,
        sg \in Sigmas, u \in {"x", "one"}}

-----------------------------------------------------------------------------
(* PDEAssembler *)

\* WaveEquationSolver1d._coef_matrix, n = u.shape[1] - 2
WaveCoefMatrix(sigma, lam, n) ==
    [r \in 0..(n - 1) |-> [c \in 0..(n - 1) |->
        IF c = r + 1 THEN Neg(Mul(lam, sigma))
        ELSE IF c = r THEN Add(R(1), Mul(Mul(R(2), lam), sigma))
        ELSE IF c = r - 1 THEN Neg(Mul(lam, sigma))
        ELSE R(0)]]

\* DiffusionEquationSolver1d._coef_matrix
DiffusionCoefMatrix(sigma, lam, n) ==
    [r \in 0..(n - 1) |-> [c \in 0..(n - 1) |->
        IF c = r + 1 THEN Mul(Mul(Neg(sigma), lam), sigma)
        ELSE IF c = r THEN Add(R(1), Mul(Mul(R(2), lam), sigma))
        ELSE IF c = r - 1 THEN Neg(Mul(lam, sigma))
        ELSE R(0)]]

\* WaveEquationSolver1d._ordinate_values; entry j is column j + 1
WaveOrdinateValues(i, sigma, lam, u, n) ==
    LET w == Sub(R(1), Mul(R(2), sigma))
    IN  [j \in 0..(n - 1) |->
            Add(Add(Add(Add(Add(
                Mul(Mul(w, lam), u[i - 1][j + 2]),
                Mul(Mul(R(2), Sub(R(1), Mul(lam, w))), u[i - 1][j + 1])),
                Mul(Mul(w, lam), u[i - 1][j])),
                Mul(Mul(sigma, lam), u[i - 2][j + 2])),
                Neg(Mul(Add(R(1), Mul(Mul(R(2), lam), sigma)), u[i - 2][j + 1]))),
                Mul(Mul(lam, sigma), u[i - 2][j]))]

DiffusionOrdinateValuesRow0(i, sigma, lam, u, n) ==
    LET w == Sub(R(1), sigma)
    IN  [j \in 0..(n - 1) |->
            Add(Add(
                Mul(Mul(w, lam), u[0][j + 2]),
                Mul(Sub(R(1), Mul(Mul(R(2), w), lam)), u[0][j + 1])),
                Mul(Mul(w, lam), u[0][j]))]

\* DiffusionEquationSolver1d._ordinate_values
DiffusionOrdinateValues(i, sigma, lam, u, n) ==
    LET w == Sub(R(1), sigma)
    IN  [j \in 0..(n - 1) |->
            Add(Add(
                Mul(Mul(w, lam), u[i - 1][j + 2]),
                Mul(Sub(R(1), Mul(Mul(R(2), w), lam)), u[i - 1][j + 1])),
                Mul(Mul(w, lam), u[i - 1][j]))]

\* np.linalg.solve(A, b) by elimination on the augmented matrix M; columns
\* before c are reduced.  ok is FALSE when A is singular (LinAlgError).
RECURSIVE Eliminate(_, _, _)
Eliminate(M, n, c) ==
    IF c = n THEN [ok |-> TRUE, x |-> [r \in 0..(n - 1) |-> M[r][n]]]
    ELSE LET cand == {r \in c..(n - 1) : M[r][c] # R(0)}
         IN  IF cand = {} THEN [ok |-> FALSE, x |-> <<>>]
             ELSE LET p == CHOOSE r \in cand : \A q \in cand : r <= q
                      S == [r \in 0..(n - 1) |->
                               IF r = c THEN M[p] ELSE IF r = p THEN M[c] ELSE M[r]]
                      prow == [j \in 0..n |-> Div(S[c][j], S[c][c])]
                      E == [r \in 0..(n - 1) |->
                               IF r = c THEN prow
                               ELSE [j \in 0..n |-> Sub(S[r][j], Mul(S[r][c], prow[j]))]]
                  IN  Eliminate(E, n, c + 1)

LinalgSolve(A, b, n) ==
    Eliminate([r \in 0..(n - 1) |-> [j \in 0..n |-> IF j = n THEN b[r] ELSE A[r][j]]], n, 0)

-----------------------------------------------------------------------------
(* PDEEngine: __init__ and __call__ of the two solver classes *)

IsWave == cls = "WaveEquationSolver1d"

PdeInit ==
    /\ pc = "new"
    /\ cls \in PdeClasses
    /\ IF args.grid_constr # None
       THEN /\ self' = [NoSelf EXCEPT !.tau = args.time_step, !.h = args.space_step,
                                      !.time_grid_constr = Custom(args.grid_constr),
                                      !.space_grid_constr = Custom(args.grid_constr)]
            /\ pc' = "ready"
            /\ err' = err
       ELSE IF args.grid_constr = None /\ args.time_step # None /\ args.space_step # None
       THEN /\ self' = [NoSelf EXCEPT !.tau = args.time_step, !.h = args.space_step,
                                      !.time_grid_constr = FixedStep(args.time_step),
                                      !.space_grid_constr = FixedStep(args.space_step)]
            /\ pc' = "ready"
            /\ err' = err
       ELSE IF args.grid_constr = None /\ args.time_step = None /\ args.space_step = None
       THEN /\ self' = [NoSelf EXCEPT !.tau = args.time_step, !.h = args.space_step,
                                      !.time_grid_constr = Identity,
                                      !.space_grid_constr = Identity]
            /\ pc' = "ready"
            /\ err' = err
       ELSE /\ Raise("ValueError")
            /\ self' = [NoSelf EXCEPT !.tau = args.time_step, !.h = args.space_step]
    /\ UNCHANGED <<cls, args, time_grid, space_grid, scheme, solution, loop, hist>>

\* tau, h = (self.tau, self.h) if self.tau is not None and self.tau is not None
\*          else (time_grid[1] - time_grid[0], space_grid[1] - space_grid[0])
TauH(slf, tg, sg) ==
    IF slf.tau # None /\ slf.tau # None
    THEN [tau |-> slf.tau, h |-> slf.h]
    ELSE [tau |-> Sub(tg[1], tg[0]), h |-> Sub(sg[1], sg[0])]

\* lam = tau * tau / h / h (wave), lam = tau / h / h (diffusion)
Lam(wave, tau, h) ==
    IF wave THEN Div(Div(Mul(tau, tau), h), h) ELSE Div(Div(tau, h), h)

\* wave 145-150, diffusion 289-294: the two grids and the mesh ratio
PdeGrids ==
    /\ pc = "ready"
    /\ cls \in PdeClasses
    /\ LET tg == BuildGrid(self.time_grid_constr, args.t)
           sg == BuildGrid(self.space_grid_constr, args.x)
           th == TauH(self, tg, sg)
       IN  /\ time_grid' = tg
           /\ space_grid' = sg
           /\ hist' = [hist EXCEPT !.built = TRUE]
           /\ IF th.h = None \/ th.tau = None
              THEN /\ Raise("TypeError")
                   /\ scheme' = [NoScheme EXCEPT !.tau = th.tau, !.h = th.h]
              ELSE /\ scheme' = [tau |-> th.tau, h |-> th.h, lam |-> Lam(IsWave, th.tau, th.h)]
                   /\ pc' = "checks"
                   /\ err' = err
    /\ UNCHANGED <<cls, args, self, solution, loop>>

StabilityGuardNoSigma(tau, h, sigma) ==
    Leq(tau, Div(Mul(h, h), R(2)))

\* assert tau <= h * h / 2 / (1 - sigma) if sigma < 1 else True
StabilityGuard(tau, h, sigma) ==
    IF Lt(sigma, R(1))
    THEN Leq(tau, Div(Div(Mul(h, h), R(2)), Sub(R(1), sigma)))
    ELSE TRUE

\* diffusion 296-299, wave 152-153: the assertions
PdeChecks ==
    /\ pc = "checks"
    /\ cls \in PdeClasses
    /\ IF ~IsWave /\ ~StabilityGuard(scheme.tau, scheme.h, args.sigma)
       THEN Raise("AssertionError: The scheme diverges")
       ELSE IF ~EdgesEqual(time_grid, args.t) \/ ~EdgesEqual(space_grid, args.x)
       THEN Raise("AssertionError: grid and real edge points must be equal")
       ELSE /\ pc' = "alloc"
            /\ err' = err
    /\ UNCHANGED <<cls, args, self, time_grid, space_grid, scheme, solution, loop, hist>>

Rows == 0..(Len0(time_grid) - 1)
Cols == 0..(Len0(space_grid) - 1)
LastCol == Len0(space_grid) - 1

\* wave 155, diffusion 301: solution = np.empty(...)
PdeAlloc ==
    /\ pc = "alloc"
    /\ cls \in PdeClasses
    /\ solution' = [r \in Rows |-> [c \in Cols |-> Uninit]]
    /\ hist' = [hist EXCEPT !.allocated = TRUE,
                   !.writes = [r \in Rows |-> [c \in Cols |-> 0]]]
    /\ pc' = "seed0"
    /\ UNCHANGED <<cls, args, err, self, time_grid, space_grid, scheme, loop>>

\* the buffer and the write counts after the cells of W received values v
Store(W, v) ==
    /\ solution' = [r \in Rows |-> [c \in Cols |->
                       IF <<r, c>> \in W THEN v[<<r, c>>] ELSE solution[r][c]]]
    /\ hist' = [hist EXCEPT !.writes = [r \in Rows |-> [c \in Cols |->
                       IF <<r, c>> \in W THEN @[r][c] + 1 ELSE @[r][c]]]]

\* wave 157, diffusion 303: solution[0] = u0(space_grid)
SeedRow0 ==
    /\ pc = "seed0"
    /\ cls \in PdeClasses
    /\ Store({<<0, c>> : c \in Cols},
             [w \in {<<0, c>> : c \in Cols} |-> U0(args.u0, space_grid[w[2]])])
    /\ pc' = IF IsWave THEN "seed1" ELSE "seedA"
    /\ UNCHANGED <<cls, args, err, self, time_grid, space_grid, scheme, loop>>

\* the time step of row 1: (t[1] - t[0])
SeedDt == Sub(args.t[1], args.t[0])

\* wave 158: solution[1] = u0(space_grid) + (t[1]-t[0])*ut0(space_grid)
SeedRow1 ==
    /\ pc = "seed1"
    /\ IsWave
    /\ Store({<<1, c>> : c \in Cols},
             [w \in {<<1, c>> : c \in Cols} |->
                 Add(U0(args.u0, space_grid[w[2]]),
                     Mul(SeedDt, Ut0(args.ut0, space_grid[w[2]])))])
    /\ pc' = "seedA"
    /\ UNCHANGED <<cls, args, err, self, time_grid, space_grid, scheme, loop>>

\* wave 159, diffusion 304: solution[:, 0] = ua(time_grid)
SeedLeft ==
    /\ pc = "seedA"
    /\ cls \in PdeClasses
    /\ Store({<<r, 0>> : r \in Rows},
             [w \in {<<r, 0>> : r \in Rows} |-> Ua(args.ua, time_grid[w[1]])])
    /\ pc' = "seedB"
    /\ UNCHANGED <<cls, args, err, self, time_grid, space_grid, scheme, loop>>

\* wave 160, diffusion 305: solution[:, -1] = ub(time_grid)
SeedRight ==
    /\ pc = "seedB"
    /\ cls \in PdeClasses
    /\ Store({<<r, LastCol>> : r \in Rows},
             [w \in {<<r, LastCol>> : r \in Rows} |-> Ub(args.ub, time_grid[w[1]])])
    /\ loop' = [NoLoop EXCEPT !.i = IF IsWave THEN 2 ELSE 1]
    /\ pc' = "for"
    /\ UNCHANGED <<cls, args, err, self, time_grid, space_grid, scheme>>

MarchCellsPrev(i, n) == {<<i - 1, c>> : c \in 1..n}

\* the cells solution[i, 1:-1] of row i
MarchCells(i, n) == {<<i, c>> : c \in 1..n}

\* wave 162-167, diffusion 307-312: one row of the marching loop
MarchRow ==
    /\ pc = "for"
    /\ cls \in PdeClasses
    /\ loop.i < Len0(time_grid)
    /\ LET i == loop.i
           n == Len0(space_grid) - 2
           A == IF IsWave THEN WaveCoefMatrix(args.sigma, scheme.lam, n)
                ELSE DiffusionCoefMatrix(args.sigma, scheme.lam, n)
           b == IF IsWave THEN WaveOrdinateValues(i, args.sigma, scheme.lam, solution, n)
                ELSE DiffusionOrdinateValues(i, args.sigma, scheme.lam, solution, n)
           s == LinalgSolve(A, b, n)
           W == MarchCells(i, n)
       IN  IF ~s.ok
           THEN /\ Raise("LinAlgError")
                /\ UNCHANGED <<solution, loop>>
                /\ hist' = [hist EXCEPT !.solves = @ + 1]
           ELSE /\ solution' = [r \in Rows |-> [c \in Cols |->
                                   IF <<r, c>> \in W THEN s.x[c - 1] ELSE solution[r][c]]]
                /\ hist' = [hist EXCEPT !.solves = @ + 1, !.marched = @ + 1,
                               !.handled = Append(@, [i |-> i, k |-> i, y0 |-> NaN, y1 |-> NaN]),
                               !.writes = [r \in Rows |-> [c \in Cols |->
                                   IF <<r, c>> \in W THEN @[r][c] + 1 ELSE @[r][c]]]]
                /\ loop' = [loop EXCEPT !.i = @ + 1]
                /\ UNCHANGED <<pc, err>>
    /\ UNCHANGED <<cls, args, self, time_grid, space_grid, scheme>>

\* wave 169, diffusion 314: return solution
PdeReturn ==
    /\ pc = "for"
    /\ cls \in PdeClasses
    /\ loop.i >= Len0(time_grid)
    /\ hist' = [hist EXCEPT !.result = solution]
    /\ pc' = "done"
    /\ UNCHANGED <<cls, args, err, self, time_grid, space_grid, scheme, solution, loop>>

-----------------------------------------------------------------------------

Init ==
    /\ \/ cls \in OdeClasses /\ args \in OdeArgs
       \/ cls \in PdeClasses /\ args \in PdeArgs
    /\ pc = "new"
    /\ err = ""
    /\ self = NoSelf
    /\ time_grid = <<>>
    /\ space_grid = <<>>
    /\ scheme = NoScheme
    /\ solution = <<>>
    /\ loop = NoLoop
    /\ hist = NoHist

Next ==
    \/ OdeInit
    \/ OdeCall
    \/ OdeStep
    \/ OdeProject
    \/ OdeNext
    \/ OdeReturn
    \/ PdeInit
    \/ PdeGrids
    \/ PdeChecks
    \/ PdeAlloc
    \/ SeedRow0
    \/ SeedRow1
    \/ SeedLeft
    \/ SeedRight
    \/ MarchRow
    \/ PdeReturn

Spec == Init /\ [][Next]_vars

-----------------------------------------------------------------------------
(* Properties *)

IsOde == cls \in OdeClasses
IsPde == cls \in PdeClasses
IsDiffusion == cls = "DiffusionEquationSolver1d"
Constructed == pc # "new"
Diverges == "AssertionError: The scheme diverges"
EdgeError == "AssertionError: grid and real edge points must be equal"

Sorted(t) == \A j \in 1..(Len0(t) - 1) : Leq(t[j - 1], t[j])
StrictlyIncreasing(t) == \A j \in 1..(Len0(t) - 1) : Lt(t[j - 1], t[j])

\* The caller passed a step size together with grid_constr.
BothGiven ==
    /\ args.grid_constr # None
    /\ IF IsOde THEN args.step_size # None
       ELSE args.time_step # None \/ args.space_step # None

\* C1: in every constructor, passing a step size together with grid_constr
\* raises the configuration error at construction, before any grid is built
\* and before any solve step runs.
C1_BothGivenRaises ==
    (Constructed /\ BothGiven) =>
        (pc = "error" /\ err = "ValueError" /\ ~hist.built /\ hist.marched = 0)

\* C2: the fixed-step grid over t with step h starts at t[0], ends at t[-1],
\* has ceil(|t[-1]-t[0]|/h)+1 points, is evenly spaced, and its spacing is
\* <= h, equal to h exactly when the span is a multiple of h.
FixedStepGridOK(g, t, h) ==
    LET span == AbsR(Sub(Last(t), t[0]))
        L == Len0(g)
    IN  /\ L >= 1
        /\ g[0] = t[0]
        /\ Last(g) = Last(t)
        /\ Leq(span, Mul(h, R(L - 1)))
        /\ L >= 2 => Lt(Mul(h, R(L - 2)), span)
        /\ \A k \in 1..(L - 1) : Sub(g[k], g[k - 1]) = Sub(g[1], g[0])
        /\ L >= 2 => /\ Mul(AbsR(Sub(g[1], g[0])), R(L - 1)) = span
                     /\ Leq(AbsR(Sub(g[1], g[0])), h)
                     /\ (AbsR(Sub(g[1], g[0])) = h) <=> (Div(span, h)[2] = 1)

\* C2: every grid built under the fixed-step policy (ODE time grid, PDE time
\* and space grids) satisfies the fixed-step contract above.
C2_FixedStepGrid ==
    /\ (IsOde /\ hist.built /\ self.grid_constr.kind = "step") =>
           FixedStepGridOK(time_grid, args.t, self.grid_constr.step)
    /\ (IsPde /\ hist.built /\ self.time_grid_constr.kind = "step") =>
           /\ FixedStepGridOK(time_grid, args.t, self.time_grid_constr.step)
           /\ FixedStepGridOK(space_grid, args.x, self.space_grid_constr.step)

C2_Witness ==
    /\ IsPde
    /\ hist.built
    /\ self.space_grid_constr.kind = "step"
    /\ Len0(space_grid) = 3
    /\ Lt(Sub(space_grid[1], space_grid[0]), self.space_grid_constr.step)

\* C3: in an ODE solve whose requested times are sorted ascending and lie in
\* a span that is actually marched (the grid has at least one step), the
\* cursor i starts at 1 and never decreases, the indices handled so far are
\* exactly 1..i-1 in this order, each index j was handled in the first
\* marching step whose right endpoint is >= t[j], and i = len(t) on return.
InLoop == pc \in {"for", "while", "done"}

C3_Pre ==
    /\ IsOde
    /\ InLoop
    /\ Sorted(args.t)
    /\ Len0(time_grid) >= 2

C3_State ==
    C3_Pre =>
        /\ loop.i >= 1
        /\ Len(hist.handled) = loop.i - 1
        /\ \A j \in 1..Len(hist.handled) :
              /\ hist.handled[j].i = j
              /\ Geq(time_grid[hist.handled[j].k + 1], args.t[j])
              /\ \A k \in 0..(hist.handled[j].k - 1) :
                    ~Geq(time_grid[k + 1], args.t[j])
        /\ pc = "done" => loop.i = Len0(args.t)

\* C3: the cursor invariant holds in every state and the cursor never
\* decreases in any step.
C3_CursorWalk == [](C3_State) /\ [][loop'.i >= loop.i]_vars

C3_Witness ==
    /\ C3_Pre
    /\ pc = "done"
    /\ Len(hist.handled) = 2
    /\ hist.handled[1].k < hist.handled[2].k

\* C4: on return of an ODE solve over strictly increasing times, every output
\* index that a marching step crossed holds the interpolant of the configured mode: it has been written,
\* and in linear mode its value is the linear interpolant at t[i].
C4_CrossedIndicesWritten ==
    (IsOde /\ pc = "done" /\ StrictlyIncreasing(args.t)) =>
        \A j \in 1..Len(hist.handled) :
            LET e == hist.handled[j]
            IN  /\ hist.writes[e.i] >= 1
                /\ args.interp = "linear" =>
                       hist.result[e.i] =
                           LinearInterp(time_grid[e.k], time_grid[e.k + 1], e.y0, e.y1,
                                        args.t[e.i])

\* C5: with the identity grid, strictly increasing times and linear
\* interpolation the returned buffer is the raw stepper's trajectory:
\* solution[0] = y0, solution[k] = solution[k-1] + step(...) and marching
\* step k-1 writes index k and nothing else.
C5_Pre ==
    /\ IsOde
    /\ pc = "done"
    /\ self.grid_constr.kind = "identity"
    /\ StrictlyIncreasing(args.t)
    /\ args.interp = "linear"

\* C5: the returned buffer obeys the raw stepper recurrence.
C5_RoundTrip ==
    C5_Pre =>
        /\ hist.result[0] = args.y0
        /\ \A k \in 1..(Len0(args.t) - 1) :
              /\ hist.result[k] =
                    Add(hist.result[k - 1],
                        Step(cls, args.func, args.t[k - 1], Sub(args.t[k], args.t[k - 1]),
                             args.t[k], hist.result[k - 1]))
              /\ hist.writes[k] = 1
              /\ hist.handled[k].i = k
              /\ hist.handled[k].k = k - 1

C5_Witness ==
    /\ C5_Pre
    /\ Len0(args.t) = 3
    /\ args.func = "y"
    /\ cls = "RK4Solver"

\* C6: the diffusion assembler's matrix is the symmetric tridiagonal matrix
\* with 1+2*sigma*lam on the diagonal and -sigma*lam next to it.
SymmetricTridiagonal(A, sigma, lam, n) ==
    \A r \in 0..(n - 1), c \in 0..(n - 1) :
        A[r][c] = IF r = c THEN Add(R(1), Mul(R(2), Mul(sigma, lam)))
                  ELSE IF c = r + 1 \/ c = r - 1 THEN Neg(Mul(sigma, lam))
                  ELSE R(0)

\* C6: the matrix assembled in the diffusion marching loop is that matrix.
C6_DiffusionMatrixSymmetric ==
    (IsDiffusion /\ pc = "for") =>
        SymmetricTridiagonal(
            DiffusionCoefMatrix(args.sigma, scheme.lam, Len0(space_grid) - 2),
            args.sigma, scheme.lam, Len0(space_grid) - 2)

\* C7: in a diffusion solve whose time step tau and space step h (as the
\* solve computes them) give tau > h^2/(2(1-sigma)) with sigma < 1, the call
\* ends in the stability assertion with no buffer allocated and no linear
\* system assembled; with sigma >= 1 the stability assertion never fires.
Exceeds ==
    /\ Lt(args.sigma, R(1))
    /\ Lt(Mul(scheme.h, scheme.h),
          Mul(Mul(R(2), Sub(R(1), args.sigma)), scheme.tau))

\* C7: the stability guard fires exactly as stated, before allocation.
C7_StabilityGuard ==
    (IsDiffusion /\ scheme.lam # None) =>
        /\ (Exceeds /\ pc # "checks") =>
               (pc = "error" /\ err = Diverges /\ ~hist.allocated /\ hist.solves = 0)
        /\ ~Lt(args.sigma, R(1)) => err # Diverges

C7_Witness ==
    /\ IsDiffusion
    /\ scheme.lam # None
    /\ Exceeds
    /\ pc = "error"
    /\ err = Diverges

\* C8: in a wave solve, once the two initial rows are seeded, row 0 is u0 on
\* the space grid and row 1 is u0 + dt*ut0 with dt = time_grid[1]-time_grid[0].
C8_SeedUsesGridStep ==
    (IsWave /\ pc = "seedA") =>
        \A c \in Cols :
            /\ solution[0][c] = U0(args.u0, space_grid[c])
            /\ solution[1][c] =
                  Add(U0(args.u0, space_grid[c]),
                      Mul(Sub(time_grid[1], time_grid[0]), Ut0(args.ut0, space_grid[c])))

InitialRows == 0..(IF IsWave THEN 1 ELSE 0)

GridsMarched == hist.marched >= 1

RequestedEdges(g, t) == g[0] = t[0] /\ g[Len0(g) - 1] = t[Len0(t) - 1]

C10_GridsStrictlyIncreasing ==
    GridsMarched =>
        /\ StrictlyIncreasing(time_grid) /\ RequestedEdges(time_grid, args.t)
        /\ IsPde => StrictlyIncreasing(space_grid) /\ RequestedEdges(space_grid, args.x)

\* C10 (amended): every grid an engine marches on has the requested first and
\* last elements; a built grid with another endpoint is never marched and no
\* buffer is allocated for it: the call fails before the first marching step.
EdgesOK ==
    /\ RequestedEdges(time_grid, args.t)
    /\ IsPde => RequestedEdges(space_grid, args.x)

\* C10 (amended): marched grids have the requested edges; others are rejected.
C10_MarchedGridEdges ==
    /\ GridsMarched => EdgesOK
    /\ (hist.built /\ ~EdgesOK) =>
           /\ hist.marched = 0
           /\ ~hist.allocated
           /\ pc \in {"checks", "error"}
           /\ pc = "error" => err \in {"AssertionError", EdgeError, Diverges, "TypeError"}

C10_Witness ==
    /\ IsOde
    /\ GridsMarched
    /\ pc = "done"
    /\ EdgesOK
    /\ ~Sorted(time_grid)

\* an interp value that is neither 'linear', nor 'cubic', nor a callable
Unrecognized(interp) == interp \notin {"linear", "cubic"} /\ ~IsCallable(interp)

\* C11: an ODE solver whose interp is unrecognized never returns a solution
\* buffer, whatever the requested times are; once its grid has passed the
\* edge assertion the call can only end in the TypeError of the projector.
C11_UnrecognizedInterpNeverReturns ==
    (IsOde /\ Unrecognized(args.interp)) =>
        /\ pc # "done"
        /\ (pc = "error" /\ hist.allocated) => err = "TypeError"

\* the constant c of the derivative f(t, y) = c
ConstC == Func("const", R(0), R(0))

\* C12: for the constant derivative f(t, y) = c the stepper of each of the
\* three classes returns exactly dt*c in every marching step (every t0, dt
\* and y the engine reaches), and after any number of marching steps the
\* state held at grid point t is y0 + c*(t - time_grid[0]).
C12_ConstantDerivativeExact ==
    (IsOde /\ args.func = "const") =>
        /\ pc \in {"for", "done"} =>
              loop.y0 = Add(args.y0,
                            Mul(ConstC, Sub(time_grid[loop.k], time_grid[0])))
        /\ pc = "while" =>
              /\ Step(cls, args.func, loop.t0, Sub(loop.t1, loop.t0), loop.t1, loop.y0)
                     = Mul(Sub(loop.t1, loop.t0), ConstC)
              /\ Sub(loop.y1, loop.y0) = Mul(Sub(loop.t1, loop.t0), ConstC)
              /\ loop.y1 = Add(args.y0,
                               Mul(ConstC, Sub(time_grid[loop.k + 1], time_grid[0])))

C12_Witness ==
    /\ cls = "SimpsonSolver"
    /\ args.func = "const"
    /\ pc = "done"
    /\ hist.marched >= 2
    /\ loop.y0 = Add(args.y0, R(4))

Min(a, b) == IF Leq(a, b) THEN a ELSE b
Max(a, b) == IF Leq(a, b) THEN b ELSE a

\* the entries of hist.handled that handled output index j
HandledAt(j) == {e \in 1..Len(hist.handled) : hist.handled[e].i = j}

\* output time t[j] lies outside the span of the marching step that
\* handled index j, or no step handled j and t[j] lies beyond the last
\* grid point
OutsideMarchedSpan(j) ==
    IF HandledAt(j) # {}
    THEN \E e \in HandledAt(j) :
            LET k == hist.handled[e].k
            IN  \/ Lt(args.t[j], Min(time_grid[k], time_grid[k + 1]))
                \/ Lt(Max(time_grid[k], time_grid[k + 1]), args.t[j])
    ELSE Lt(Last(time_grid), args.t[j])

\* C13: on return of an ODE solve in linear mode, every output index whose
\* time lies outside the span of the step that handled it, or beyond the
\* last marched grid point, has been written and holds not-a-number.
C13_OutsideSpanIsNaN ==
    (IsOde /\ pc = "done" /\ args.interp = "linear") =>
        \A j \in 1..(Len0(args.t) - 1) :
            OutsideMarchedSpan(j) =>
                (hist.writes[j] >= 1 /\ IsNaN(hist.result[j]))

\* first row of the marching loop: range(2, ...) for wave, range(1, ...) for
\* diffusion
FirstMarchedRow == IF IsWave THEN 2 ELSE 1
Interior == 1..(Len0(space_grid) - 2)
RowsRead(i) == IF IsWave THEN {i - 1, i - 2} ELSE {i - 1}

\* the buffer u with every row outside keep blanked
Blanked(u, keep) ==
    [r \in DOMAIN u |-> [c \in DOMAIN u[r] |-> IF r \in keep THEN u[r][c] ELSE NaN]]

Ordinates(i, u) ==
    IF IsWave
    THEN WaveOrdinateValues(i, args.sigma, scheme.lam, u, Len0(space_grid) - 2)
    ELSE DiffusionOrdinateValues(i, args.sigma, scheme.lam, u, Len0(space_grid) - 2)

\* between two iterations of the marching loop, and on return: the rows
\* marched so far are FirstMarchedRow..i-1 in this order, every row below i
\* is complete, no interior cell of a later row is written, the right-hand
\* side of row i depends on rows i-1 (and i-2) only, the boundary columns
\* hold ua(time_grid) and ub(time_grid) and the initial rows hold their seed
C14_State ==
    (IsPde /\ pc \in {"for", "done"}) =>
        /\ Len(hist.handled) = loop.i - FirstMarchedRow
        /\ \A j \in 1..Len(hist.handled) : hist.handled[j].i = FirstMarchedRow + j - 1
        /\ \A r \in Rows, c \in Cols : r < loop.i => hist.writes[r][c] >= 1
        /\ \A r \in Rows, c \in Interior : r >= loop.i => hist.writes[r][c] = 0
        /\ loop.i < Len0(time_grid) =>
               Ordinates(loop.i, solution) = Ordinates(loop.i, Blanked(solution, RowsRead(loop.i)))
        /\ \A r \in Rows :
               /\ solution[r][0] = Ua(args.ua, time_grid[r])
               /\ solution[r][Len0(space_grid) - 1] = Ub(args.ub, time_grid[r])
        /\ \A c \in Interior :
               /\ solution[0][c] = U0(args.u0, space_grid[c])
               /\ IsWave =>
                     solution[1][c] = Add(U0(args.u0, space_grid[c]),
                                          Mul(SeedDt, Ut0(args.ut0, space_grid[c])))
        /\ pc = "done" => (loop.i = Len0(time_grid) /\ hist.result = solution)

\* one step taken from the marching loop writes the interior cells of row i
\* once each and moves to row i + 1, or leaves the buffer as it is
C14_Step ==
    (IsPde /\ pc = "for") =>
        IF pc' = "for"
        THEN /\ loop'.i = loop.i + 1
             /\ \A r \in Rows, c \in Cols :
                   IF r = loop.i /\ c \in Interior
                   THEN hist'.writes[r][c] = hist.writes[r][c] + 1
                   ELSE /\ hist'.writes[r][c] = hist.writes[r][c]
                        /\ solution'[r][c] = solution[r][c]
        ELSE solution' = solution /\ hist'.writes = hist.writes

\* C14: the marching loop of a PDE solve writes exactly the interior cells of
\* rows FirstMarchedRow..n-1, one row per iteration in increasing row order,
\* reading only complete earlier rows; it never modifies the seeded initial
\* rows or the boundary columns, which on return hold ua(time_grid) and
\* ub(time_grid).
C14_MarchingFrame == [](C14_State) /\ [][C14_Step]_vars

C14_Witness ==
    /\ IsDiffusion
    /\ pc = "done"
    /\ hist.marched = 2
    /\ Len0(space_grid) >= 4

\* the spacing of the grids the solve marches on
RealizedDt == Sub(time_grid[1], time_grid[0])
RealizedDx == Sub(space_grid[1], space_grid[0])

FixedStepMode ==
    /\ self.time_grid_constr # None
    /\ self.time_grid_constr.kind = "step"
    /\ self.space_grid_constr.kind = "step"

\* C15: in fixed-step mode, once a diffusion solve with sigma < 1 has passed
\* the stability guard, the spacing of the marched grids satisfies
\* dt <= dx^2/(2*(1 - sigma)) and lam is the mesh ratio dt/dx^2 of that
\* spacing.
C15_RealizedSpacingStable ==
    (IsDiffusion /\ FixedStepMode /\ Lt(args.sigma, R(1))
         /\ pc \in {"alloc", "seed0", "seedA", "seedB", "for", "done"}) =>
        /\ StabilityGuard(RealizedDt, RealizedDx, args.sigma)
        /\ scheme.lam = Lam(FALSE, RealizedDt, RealizedDx)

\* the constructor returned without raising
Accepted == pc # "new" /\ ~(pc = "error" /\ err = "ValueError")
StepsOf(slf, tg, sg) ==
    IF slf.tau # None /\ slf.h # None
    THEN [tau |-> slf.tau, h |-> slf.h]
    ELSE [tau |-> Sub(tg[1], tg[0]), h |-> Sub(sg[1], sg[0])]

\* C16: for every (time_step, space_step, grid_constr) a PDE constructor
\* accepts, a solve that has built its grids holds a time step tau and a
\* space step h that are both numbers (the explicit steps if both were
\* given, otherwise the grid spacing) and has not failed on a missing step.
C16_AcceptedConfigHasSteps ==
    (IsPde /\ Accepted /\ hist.built) =>
        /\ scheme.tau # None
        /\ scheme.h # None
        /\ scheme.tau = StepsOf(self, time_grid, space_grid).tau
        /\ scheme.h = StepsOf(self, time_grid, space_grid).h
        /\ err # "TypeError"

====
